---- MODULE Spec2Model ----
(***************************************************************************)
(* Model of the twimetravel backend cache: Interval, IntervalSet and       *)
(* IntervalStore (src/backend/src/intervalstore.rs) and the per-user       *)
(* TweetStore built on them (src/backend/src/tweetstore.rs).               *)
(*                                                                         *)
(* An Interval is the pair <<lo, hi>>.  A BTreeSet<Interval> is a set of   *)
(* pairs; its iteration order is the derived lexicographic order, given    *)
(* by iter.  A value of the store is identified with its time(): both      *)
(* instantiations in the repository (u32 in the tests, TweetFromTwitter    *)
(* with the single field id) have no payload besides the time.             *)
(***************************************************************************)
EXTENDS Integers, FiniteSets, Sequences, TLC

VARIABLES
    setA, setB,          \* two IntervalSets built by IntervalSet::insert
    ptsA, ptsB,          \* ghost: points of the intervals inserted so far
    mS, mI, mOut, mpc,   \* IntervalSet::missing applied to a given set
    intervals, values,   \* IntervalStore.intervals / IntervalStore.values
    result,              \* outcome of the last IntervalStore::insert
    deposited,           \* ghost: values of the successful inserts, kept while wellformed
    wellformed,          \* ghost: every successful insert had its values inside its interval
    user_map,            \* TweetStore.tweets: the users that have a store
    stores,              \* the IntervalStore behind each user's Arc<RwLock<..>>
    mapReaders, mapWriter,      \* holders of the RwLock around the user map
    storeReaders, storeWriter,  \* holders of each user's RwLock
    pc,                  \* position of each request thread
    req,                 \* the lookup a thread serves: user, interval, principal
    after,               \* where interval_store returns to
    pending,             \* missing intervals fetch_all_tweets still has to fetch
    fetched,             \* tweets obtained by fetch_tweets for the head of pending
    ret,                 \* how the thread's last lookup ended
    depth,               \* ghost: how deep tweets has called itself in this lookup
    wrote,               \* ghost: this lookup has changed its user's store
    ever,                \* ghost: every item a successful deposit has stored, per user
    committed,           \* ghost: each user's store as the last completed insert left it
    clients,             \* the lookups (user, interval) the clients ask for
    codec,               \* a conversion between seconds and Snowflake in progress
    tokens_awaiting_callbacks, \* OauthHandler: the tokens of the pending table
    poisoned,            \* the pending table's Mutex is poisoned
    opc,                 \* each OauthHandler caller's position
    otoken,              \* the token of each caller's call
    oret                 \* the outcome of each caller's last call

setVars   == <<setA, setB, ptsA, ptsB>>
missVars  == <<mS, mI, mOut, mpc>>
storeVars == <<intervals, values, result, deposited, wellformed>>
lockVars  == <<mapReaders, mapWriter, storeReaders, storeWriter>>
threadVars == <<pc, req, after, pending, fetched, ret>>
ghostVars == <<depth, wrote, ever, committed>>
tsVars    == <<user_map, stores, lockVars, threadVars, ghostVars, clients>>
codecVars == <<codec>>
oauthVars == <<tokens_awaiting_callbacks, poisoned, opc, otoken, oret>>
vars      == <<setVars, missVars, storeVars, tsVars, codecVars, oauthVars>>

\* Largest time coordinate of the IntervalSet specifications.
MaxTime == 4

\* Largest time coordinate of the IntervalStore specification.
MaxStoreTime == 3

Times == 0..MaxTime

\* Intervals satisfying the Interval invariant lo <= hi.
Intervals == {iv \in Times \X Times : iv[1] <= iv[2]}

\* Largest tweet id of the TweetStore specification.
MaxId == 5

\* The recursion depth of TweetStore::tweets is counted up to this value.
MaxDepth == 2

Ids == 0..MaxId

IdIntervals == {iv \in Ids \X Ids : iv[1] <= iv[2]}

\* Request threads of the server.
Threads == {"t1", "t2"}

\* Users whose timelines are looked up.
Users == {"u", "v"}

\* The fixed upstream item set of each user.
Upstream(user) == {1, 2}

\* The intervals the clients ask for.
Requests == {<<0, 0>>, <<2, 3>>, <<4, 5>>, <<0, MaxId>>}

StoreTimes == 0..MaxStoreTime

StoreIntervals == {iv \in StoreTimes \X StoreTimes : iv[1] <= iv[2]}

Min(a, b) == IF a <= b THEN a ELSE b
Max(a, b) == IF a >= b THEN a ELSE b

\* Points of an interval on a grid of half steps (empty when lo > hi): the
\* time type is any ordered type, so the gap between two neighbouring
\* integers counts as a point, and [0,0] with [1,1] is not [0,1].
PointsOf(iv) == {p \in 0..(2 * MaxTime) : 2 * iv[1] <= p /\ p <= 2 * iv[2]}

PointsOfSet(S) == UNION {PointsOf(iv) : iv \in S}

----------------------------------------------------------------------------
(* Interval *)

contains(iv, time) == time >= iv[1] /\ time <= iv[2]

contains_interval(iv, interval) ==
    contains(iv, interval[1]) /\ contains(iv, interval[2])

intersects(iv, interval) ==
    contains(iv, interval[1]) \/ contains(iv, interval[2])

\* derive(Ord) on Interval(lo, hi): lexicographic.
IntervalLess(a, b) == a[1] < b[1] \/ (a[1] = b[1] /\ a[2] < b[2])

RECURSIVE iter(_)
\* BTreeSet iteration: ascending in the derived order.
iter(S) ==
    IF S = {} THEN <<>>
    ELSE LET first == CHOOSE e \in S : \A o \in S \ {e} : IntervalLess(e, o)
         IN  <<first>> \o iter(S \ {first})

----------------------------------------------------------------------------
(* IntervalSet *)

IntervalSet_contains(S, interval) ==
    \E i \in S : contains_interval(i, interval)

intersecting(S, interval) ==
    {existing \in S : intersects(existing, interval)}

RECURSIVE insert_loop_remove_first(_, _, _, _, _)
\* A loop that removes the member before it tests the early return.
insert_loop_remove_first(S, todo, interval, lower_bound, upper_bound) ==
    IF todo = <<>> THEN S \cup {<<lower_bound, upper_bound>>}
    ELSE LET existing == Head(todo) IN
         IF contains_interval(existing, interval) THEN S \ {existing}
         ELSE insert_loop_remove_first(S \ {existing}, Tail(todo), interval,
                                       Min(lower_bound, existing[1]),
                                       Max(upper_bound, existing[2]))

RECURSIVE insert_loop(_, _, _, _, _)
\* The for loop of IntervalSet::insert over a copy of the intersecting
\* members: an early return keeps the removals made so far.
insert_loop(S, todo, interval, lower_bound, upper_bound) ==
    IF todo = <<>> THEN S \cup {<<lower_bound, upper_bound>>}
    ELSE LET existing == Head(todo) IN
         IF contains_interval(existing, interval) THEN S
         ELSE insert_loop(S \ {existing}, Tail(todo), interval,
                          Min(lower_bound, existing[1]),
                          Max(upper_bound, existing[2]))

IntervalSet_insert_nowiden(S, interval) ==
    IF IntervalSet_contains(S, interval) THEN S
    ELSE (S \ intersecting(S, interval)) \cup {interval}

IntervalSet_insert(S, interval) ==
    insert_loop(S, iter(intersecting(S, interval)), interval,
                interval[1], interval[2])

RECURSIVE missing_loop(_, _, _, _)
\* The for loop of IntervalSet::missing; yields the final cursor and the
\* members emitted so far.
missing_loop(todo, interval, missing_lower_bound, out) ==
    IF todo = <<>> THEN [mlb |-> missing_lower_bound, out |-> out]
    ELSE LET existing == Head(todo) IN
         IF existing[2] < interval[1]
         THEN missing_loop(Tail(todo), interval, missing_lower_bound, out)
         ELSE IF existing[1] <= missing_lower_bound
                 /\ existing[2] >= missing_lower_bound
         THEN missing_loop(Tail(todo), interval, existing[2], out)
         ELSE IF existing[1] >= missing_lower_bound
         THEN missing_loop(Tail(todo), interval, existing[2],
                  out \cup {<<missing_lower_bound,
                              Min(interval[2], existing[1])>>})
         ELSE IF existing[1] > interval[2]
         THEN [mlb |-> missing_lower_bound, out |-> out]
         ELSE missing_loop(Tail(todo), interval, missing_lower_bound, out)

missing(S, interval) ==
    LET r == missing_loop(iter(S), interval, interval[1], {})
    IN  IF r.mlb < interval[2]
        THEN r.out \cup {<<r.mlb, interval[2]>>}
        ELSE r.out

----------------------------------------------------------------------------
(* IntervalStore *)

RECURSIVE SortedValues(_)
\* Iteration of BTreeSet<Wrapper>: ascending by time, one value per time.
SortedValues(V) ==
    IF V = {} THEN <<>>
    ELSE LET least == CHOOSE v \in V : \A o \in V : v <= o
         IN  <<least>> \o SortedValues(V \ {least})

has_any_overlap(known, interval) ==
    \E i \in known : intersects(i, interval)

has(known, interval) == IntervalSet_contains(known, interval)

IntervalStore_missing(known, interval) == missing(known, interval)

None == [some |-> FALSE, list |-> <<>>]
Some(list) == [some |-> TRUE, list |-> list]

IntervalStore_get_unfiltered(known, stored, interval) ==
    IF ~has(known, interval) THEN None
    ELSE Some(SortedValues(stored))

IntervalStore_get(known, stored, interval) ==
    IF ~has(known, interval) THEN None
    ELSE Some(SortedValues({w \in stored : contains(interval, w)}))

\* The conflict check of IntervalStore::insert for one existing interval.
overlap_differs(stored, wrapped_values, existing_interval, interval) ==
    LET overlap == <<Max(existing_interval[1], interval[1]),
                     Min(existing_interval[2], interval[2])>>
    IN  SortedValues({w \in wrapped_values : contains(overlap, w)})
            # SortedValues({w \in stored : contains(overlap, w)})

IntervalStore_insert_eager(known, stored, interval, vals) ==
    LET wrapped_values == vals
        overlapping_existing_intervals == intersecting(known, interval)
        merged == IntervalSet_insert(known, interval)
    IN  IF \E existing_interval \in overlapping_existing_intervals :
               overlap_differs(stored, wrapped_values, existing_interval,
                               interval)
        THEN [ok |-> FALSE, intervals |-> merged, values |-> stored]
        ELSE [ok |-> TRUE, intervals |-> merged,
              values |-> stored \cup wrapped_values]

\* vals is the set of times of the Vec passed in: collecting into the
\* BTreeSet of wrappers orders it and keeps one value per time.
IntervalStore_insert(known, stored, interval, vals) ==
    LET wrapped_values == vals
        overlapping_existing_intervals == intersecting(known, interval)
    IN  IF \E existing_interval \in overlapping_existing_intervals :
               overlap_differs(stored, wrapped_values, existing_interval,
                               interval)
        THEN [ok |-> FALSE, intervals |-> known, values |-> stored]
        ELSE [ok |-> TRUE,
              intervals |-> IntervalSet_insert(known, interval),
              values |-> stored \cup wrapped_values]

----------------------------------------------------------------------------
(* Specification SpecSet: two IntervalSets grown by IntervalSet::insert *)

missInit ==
    /\ mS = {} /\ mI = <<0, 0>> /\ mOut = {} /\ mpc = "idle"

storeInit ==
    /\ intervals = {} /\ values = {} /\ result = "None"
    /\ deposited = {} /\ wellformed = TRUE

setInit ==
    /\ setA = {} /\ setB = {} /\ ptsA = {} /\ ptsB = {}

NoThread == "none"

NoResult == [kind |-> "none", tweets |-> <<>>]

\* expect("Fetching tweets") on an Err: the request ends in a panic.
Panicked == [kind |-> "panic", tweets |-> <<>>]

Returned(list) == [kind |-> "ok", tweets |-> list]

NoRequest == [user |-> "none", interval |-> <<0, 0>>, search |-> FALSE]

EmptyStore == [intervals |-> {}, values |-> {}]

\* No conversion is in progress.
NoConversion == [pc |-> "none", from |-> "none", secs |-> 0, id |-> 0,
                 back |-> 0, overflow |-> FALSE]

codecInit == codec = NoConversion

\* The callers of the OauthHandler and the request tokens upstream issues.
OauthCallers == {"c1", "c2"}
Tokens == {"a", "b"}

\* OauthHandler::new: an empty pending table behind a fresh Mutex.
oauthInit ==
    /\ tokens_awaiting_callbacks = {}
    /\ poisoned = FALSE
    /\ opc = [c \in OauthCallers |-> "idle"]
    /\ otoken = [c \in OauthCallers |-> "none"]
    /\ oret = [c \in OauthCallers |-> "none"]

\* TweetStore::new: an empty user map; no request is being served.
tsNew ==
    /\ user_map = {}
    /\ stores = [u \in Users |-> EmptyStore]
    /\ mapReaders = {} /\ mapWriter = NoThread
    /\ storeReaders = [u \in Users |-> {}]
    /\ storeWriter = [u \in Users |-> NoThread]
    /\ pc = [t \in Threads |-> "idle"]
    /\ req = [t \in Threads |-> NoRequest]
    /\ after = [t \in Threads |-> "none"]
    /\ pending = [t \in Threads |-> <<>>]
    /\ fetched = [t \in Threads |-> {}]
    /\ ret = [t \in Threads |-> NoResult]
    /\ depth = [t \in Threads |-> 0]
    /\ wrote = [t \in Threads |-> FALSE]
    /\ ever = [u \in Users |-> {}]
    /\ committed = [u \in Users |-> EmptyStore]

\* The lookups of one user.
tsInit == tsNew /\ clients = {"u"} \X Requests

InitSet == setInit /\ missInit /\ storeInit /\ tsInit /\ codecInit /\ oauthInit

InsertA ==
    \E interval \in Intervals :
        /\ setA' = IntervalSet_insert(setA, interval)
        /\ ptsA' = ptsA \cup PointsOf(interval)
        /\ UNCHANGED <<setB, ptsB, missVars, storeVars, tsVars, codecVars, oauthVars>>

InsertB ==
    \E interval \in Intervals :
        /\ setB' = IntervalSet_insert(setB, interval)
        /\ ptsB' = ptsB \cup PointsOf(interval)
        /\ UNCHANGED <<setA, ptsA, missVars, storeVars, tsVars, codecVars, oauthVars>>

NextSet == InsertA \/ InsertB

SpecSet == InitSet /\ [][NextSet]_vars

----------------------------------------------------------------------------
(* Specification SpecMissing: IntervalSet::missing applied to one set of
   non-overlapping, non-touching intervals and one interval *)

\* Sets satisfying the IntervalSet invariant: members pairwise apart.
CanonicalSets ==
    {S \in SUBSET Intervals :
        \A a \in S : \A b \in S : a # b => (a[2] < b[1] \/ b[2] < a[1])}

InitMissing ==
    /\ mS \in CanonicalSets
    /\ mI \in Intervals
    /\ mOut = {}
    /\ mpc = "call"
    /\ setInit /\ storeInit /\ tsInit /\ codecInit /\ oauthInit

Missing ==
    /\ mpc = "call"
    /\ mOut' = missing(mS, mI)
    /\ mpc' = "done"
    /\ UNCHANGED <<mS, mI, setVars, storeVars, tsVars, codecVars, oauthVars>>

NextMissing == Missing

SpecMissing == InitMissing /\ [][NextMissing]_vars

----------------------------------------------------------------------------
(* Properties of IntervalSet *)

\* C2: after any sequence of IntervalSet::insert calls, any two distinct
\* members A before B in iteration order satisfy A.hi < B.lo.
C2_NonTouching ==
    \A a \in setA : \A b \in setA :
        (a # b /\ IntervalLess(a, b)) => a[2] < b[1]

\* C3: a point is contained in some member exactly when it lies in one of
\* the inserted intervals.
C3_PointCoverage ==
    \A p \in 0..(2 * MaxTime) :
        (\E m \in setA : p \in PointsOf(m)) <=> (p \in ptsA)

\* C3 witness: several inserts left two members and an uncovered point.
C3_Witness ==
    /\ Cardinality(setA) >= 2
    /\ ptsA # 0..(2 * MaxTime)
    /\ \E m \in setA : m[1] < m[2]

\* C4: two sets built by insert are equal exactly when they cover the same
\* point-set.
C4_Canonical ==
    (setA = setB) <=> (PointsOfSet(setA) = PointsOfSet(setB))

RECURSIVE spec_walk(_, _, _, _)
\* The cursor walk of the specification's missing algorithm, which stops
\* at the first member lying above the interval.
spec_walk(todo, interval, c, out) ==
    IF todo = <<>> THEN [c |-> c, out |-> out]
    ELSE LET E == Head(todo) IN
         IF E[2] < interval[1]
         THEN spec_walk(Tail(todo), interval, c, out)
         ELSE IF E[1] <= c /\ c <= E[2]
         THEN spec_walk(Tail(todo), interval, E[2], out)
         ELSE IF c < E[1] /\ E[1] <= interval[2]
         THEN spec_walk(Tail(todo), interval, E[2],
                  out \cup {<<c, Min(interval[2], E[1])>>})
         ELSE IF E[1] > interval[2]
         THEN [c |-> c, out |-> out]
         ELSE spec_walk(Tail(todo), interval, c, out)

spec_missing(S, interval) ==
    LET r == spec_walk(iter(S), interval, interval[1], {})
    IN  IF r.c < interval[2] THEN r.out \cup {<<r.c, interval[2]>>} ELSE r.out

\* C5: missing(I) on a canonical set is the result of the specification's
\* cursor walk, is empty when a member contains I, and every returned
\* member [a, b] satisfies I.lo <= a <= b <= I.hi.  The comparison with
\* the walk is made for lo < hi: for an uncovered single point the walk
\* itself returns nothing.
C5_MissingAsWalk ==
    mpc = "done" =>
        /\ (mI[1] < mI[2] => mOut = spec_missing(mS, mI))
        /\ (IntervalSet_contains(mS, mI) => mOut = {})
        /\ \A m \in mOut : mI[1] <= m[1] /\ m[1] <= m[2] /\ m[2] <= mI[2]

\* C6: for a set reachable by insert and any interval I, missing(I)
\* together with the covered part of I is exactly I, and no two members of
\* missing(I) share a point.
C6_MissingPartition ==
    \A I \in Intervals :
        LET miss == missing(setA, I) IN
        /\ PointsOfSet(miss) \cup (PointsOfSet(setA) \cap PointsOf(I))
               = PointsOf(I)
        /\ \A a \in miss : \A b \in miss :
               a # b => PointsOf(a) \cap PointsOf(b) = {}

----------------------------------------------------------------------------
(* Specification SpecStore: one IntervalStore under IntervalStore::insert
   with arbitrary intervals (lo <= hi) and arbitrary value lists *)

InitStore == storeInit /\ setInit /\ missInit /\ tsInit /\ codecInit /\ oauthInit

Insert ==
    \E interval \in StoreIntervals : \E vals \in SUBSET StoreTimes :
        \E r \in {IntervalStore_insert(intervals, values, interval, vals)} :
        /\ intervals' = r.intervals
        /\ values' = r.values
        /\ result' = IF r.ok THEN "Ok" ELSE "Err"
        /\ wellformed' = IF r.ok
                         THEN wellformed /\ (\A v \in vals : contains(interval, v))
                         ELSE wellformed
        /\ deposited' = IF ~wellformed' THEN {}
                        ELSE IF r.ok THEN deposited \cup vals
                        ELSE deposited
        /\ UNCHANGED <<setVars, missVars, tsVars, codecVars, oauthVars>>

NextStore == Insert

SpecStore == InitStore /\ [][NextStore]_vars

----------------------------------------------------------------------------
(* Properties of IntervalStore *)

\* Two intervals share at least one point.
SharePoint(a, b) == Max(a[1], b[1]) <= Min(a[2], b[2])

\* Value lists whose values all lie inside the interval.
ValuesIn(I) == SUBSET {t \in StoreTimes : contains(I, t)}

\* C7: insert(I, values) fails whenever some known interval E shares a
\* point with I (also an E strictly inside I) and the stored values with
\* time in the overlap of E and I differ from the new values there.
\* Stated for the stores and value lists the claim certainly covers: every
\* value list, earlier and new, lies inside its interval.
C7_ConflictDetected ==
    wellformed =>
    \A I \in StoreIntervals : \A V \in ValuesIn(I) :
        (\E E \in intervals :
            /\ SharePoint(E, I)
            /\ LET O == <<Max(E[1], I[1]), Min(E[2], I[2])>>
               IN  {v \in values : contains(O, v)}
                       # {v \in V : contains(O, v)})
        => ~IntervalStore_insert(intervals, values, I, V).ok

\* C8: an insert that returns an error leaves the known coverage and the
\* value collection as they were before the call.
C8_ConflictAtomic ==
    [][result' = "Err" => (intervals' = intervals /\ values' = values)]_vars

\* C8 witness: an insert failed on a store that holds coverage and values.
C8_Witness ==
    result = "Err" /\ intervals # {} /\ values # {}

\* C9: when insert(I, V) succeeds, the identical insert repeated at once
\* succeeds too and changes neither the coverage nor the values.
\* Stated for the stores and value lists the claim certainly covers: every
\* value list, earlier and new, lies inside its interval.
C9_Idempotent ==
    wellformed =>
    \A I \in StoreIntervals : \A V \in ValuesIn(I) :
        LET r1 == IntervalStore_insert(intervals, values, I, V) IN
        r1.ok =>
            LET r2 == IntervalStore_insert(r1.intervals, r1.values, I, V) IN
            r2.ok /\ r2.intervals = r1.intervals /\ r2.values = r1.values

\* C10: after successful inserts whose values lie inside their intervals,
\* get(I) for a known I is the ascending list, one value per time, of the
\* values v of some V_i with time in I and in I_i.
C10_GetExact ==
    wellformed =>
        \A I \in StoreIntervals :
            has(intervals, I) =>
                LET g == IntervalStore_get(intervals, values, I) IN
                /\ g.some
                /\ {g.list[i] : i \in 1..Len(g.list)}
                       = {v \in deposited : contains(I, v)}
                /\ \A i \in 1..Len(g.list) : \A j \in 1..Len(g.list) :
                       i < j => g.list[i] < g.list[j]

\* C10 witness: values were merged from two inserts and a known interval
\* leaves some stored value outside.
C10_Witness ==
    /\ wellformed
    /\ result = "Ok"
    /\ \E I \in StoreIntervals :
           /\ has(intervals, I)
           /\ \E v \in values : contains(I, v)
           /\ \E v \in values : ~contains(I, v)
           /\ Len(IntervalStore_get(intervals, values, I).list) >= 2

\* C26: for every set reachable by insert and every interval I with
\* lo <= hi, intersecting(I) returns every member that shares a point
\* with I, members lying strictly inside I included.
C26_IntersectingComplete ==
    \A I \in Intervals : \A E \in setA :
        SharePoint(E, I) => E \in intersecting(setA, I)

\* C27: in any set reachable by insert, inserting an interval that some
\* member contains leaves the set exactly unchanged.
C27_ContainedInsertNoOp ==
    \A I \in Intervals :
        IntervalSet_contains(setA, I) => IntervalSet_insert(setA, I) = setA

\* C27 witness: a set of several members, one of them containing an
\* interval that reaches both of its ends and spans more than a point.
C27_Witness ==
    /\ Cardinality(setA) >= 2
    /\ \E E \in setA : \E I \in Intervals :
           /\ I[1] < I[2] /\ contains_interval(E, I) /\ I # E
           /\ \E F \in setA \ {E} : F[1] < F[2]

\* C31: known coverage is monotone: once has(I) is true for an interval
\* I, it is true after every further insert, successful or failed.
C31_CoverageMonotone ==
    [][\A I \in StoreIntervals :
         has(intervals, I) => has(intervals', I)]_vars

\* C31 witness: a failed insert has left a store whose coverage earlier
\* inserts have merged into an interval spanning several points.
C31_Witness ==
    /\ result = "Err"
    /\ \E E \in intervals :
           /\ E[2] >= E[1] + 2
           /\ has(intervals, <<E[1] + 1, E[2]>>)
    /\ Cardinality(intervals) >= 2

\* C11: after any sequence of inserts with arbitrary value lists, every
\* stored value's time lies inside some interval of the known coverage.
C11_ValuesInsideCoverage ==
    \A v \in values : \E E \in intervals : contains(E, v)

\* C12: get(I) is absent exactly when no single known interval contains
\* I, and otherwise is the ascending list of the stored values with time
\* in I (the empty list for a known interval without values).
C12_GetAbsentOrExact ==
    \A I \in StoreIntervals :
        LET g == IntervalStore_get(intervals, values, I) IN
        /\ g.some <=> (\E E \in intervals : E[1] <= I[1] /\ I[2] <= E[2])
        /\ g.some =>
              /\ {g.list[i] : i \in 1..Len(g.list)}
                     = {v \in values : I[1] <= v /\ v <= I[2]}
              /\ \A i \in 1..Len(g.list) : \A j \in 1..Len(g.list) :
                     i < j => g.list[i] < g.list[j]

\* C12 witness: an interval covered piecewise by two known intervals is
\* absent, and a known interval without values yields the empty list.
C12_Witness ==
    /\ result = "Ok"
    /\ \E I \in StoreIntervals :
           /\ \A t \in StoreTimes :
                  contains(I, t) => \E E \in intervals : contains(E, t)
           /\ ~IntervalStore_get(intervals, values, I).some
    /\ \E E \in intervals :
           IntervalStore_get(intervals, values, E) = Some(<<>>)

\* The smallest interval containing both.
Hull(a, b) == <<Min(a[1], b[1]), Max(a[2], b[2])>>

\* The stored values and the new values agree on the overlap of E and I.
AgreeOnOverlap(E, I, V) ==
    LET O == <<Max(E[1], I[1]), Min(E[2], I[2])>>
    IN  {v \in values : contains(O, v)} = {v \in V : contains(O, v)}

\* C13: when insert(I, V) meets known intervals sharing a point with I
\* (touching, overlapping from below or above, or containing I) and the
\* values agree on every such overlap, the insert succeeds, the hull of
\* each such interval and I is known afterwards, and get on that hull is
\* the previously stored values together with V, restricted to the hull.
C13_MergeOnAgreement ==
    \A I \in StoreIntervals : \A V \in SUBSET StoreTimes :
        LET sharing == {E \in intervals : SharePoint(E, I)} IN
        (sharing # {} /\ \A E \in sharing : AgreeOnOverlap(E, I, V)) =>
            \E r \in {IntervalStore_insert(intervals, values, I, V)} :
                /\ r.ok
                /\ \A E \in sharing :
                     \E g \in {IntervalStore_get(r.intervals, r.values,
                                                 Hull(E, I))} :
                       /\ g.some
                       /\ {g.list[i] : i \in 1..Len(g.list)}
                              = {v \in values \cup V : contains(Hull(E, I), v)}

\* C13 witness: an agreeing insert overlapping a known interval from below
\* or above has been merged: a known interval holds values at both ends
\* and in between, and a further overlapping insert would agree.
C13_Witness ==
    /\ result = "Ok"
    /\ \E M \in intervals :
           /\ M[2] >= M[1] + 2
           /\ M[1] \in values /\ M[2] \in values /\ (M[1] + 1) \in values
           /\ \E I \in StoreIntervals : \E V \in SUBSET StoreTimes :
                  /\ I[1] < M[1] /\ M[1] < I[2] /\ I[2] < M[2]
                  /\ V # {}
                  /\ AgreeOnOverlap(M, I, V)

----------------------------------------------------------------------------
(* Specification Spec: request threads calling TweetStore::tweets.
   Every guard scope of a lock is two steps: acquiring it, then the body
   with the release.  Upstream answers with the user's fixed item set
   restricted to the requested range, or fails. *)

Init == tsInit /\ setInit /\ missInit /\ storeInit /\ codecInit /\ oauthInit

\* The upstream items with since_id <= id <= max_id.
UpstreamRange(user, interval) ==
    {id \in Upstream(user) : interval[1] <= id /\ id <= interval[2]}

\* The depth of one more call of tweets on itself, counted up to MaxDepth.
Deeper(d) == IF d < MaxDepth THEN d + 1 ELSE MaxDepth

\* Where interval_store returns to: get_known_tweets or fetch_tweets.
ReturnTo(t) == IF after[t] = "known" THEN "store_read" ELSE "store_write"

\* A client calls tweets(context, user, interval).
Start(t) ==
    /\ pc[t] = "idle"
    /\ \E client \in clients : \E search \in BOOLEAN :
           req' = [req EXCEPT ![t] = [user |-> client[1],
                                      interval |-> client[2],
                                      search |-> search]]
    /\ ret' = [ret EXCEPT ![t] = NoResult]
    /\ after' = [after EXCEPT ![t] = "known"]
    /\ pc' = [pc EXCEPT ![t] = "map_read"]
    /\ depth' = [depth EXCEPT ![t] = 0]
    /\ wrote' = [wrote EXCEPT ![t] = FALSE]
    /\ UNCHANGED <<user_map, stores, lockVars, pending, fetched, ever,
                   committed>>
    /\ UNCHANGED <<setVars, missVars, storeVars, codecVars, oauthVars, clients>>

\* interval_store: self.tweets.read()
MapRead(t) ==
    /\ pc[t] = "map_read"
    /\ mapWriter = NoThread
    /\ mapReaders' = mapReaders \cup {t}
    /\ pc' = [pc EXCEPT ![t] = "map_lookup"]
    /\ UNCHANGED <<user_map, stores, mapWriter, storeReaders, storeWriter,
                   req, after, pending, fetched, ret, ghostVars>>
    /\ UNCHANGED <<setVars, missVars, storeVars, codecVars, oauthVars, clients>>

\* interval_store: user_map.get(user) under the read lock, then release.
MapLookup(t) ==
    /\ pc[t] = "map_lookup"
    /\ mapReaders' = mapReaders \ {t}
    /\ pc' = [pc EXCEPT ![t] = IF req[t].user \in user_map
                               THEN ReturnTo(t) ELSE "map_write"]
    /\ UNCHANGED <<user_map, stores, mapWriter, storeReaders, storeWriter,
                   req, after, pending, fetched, ret, ghostVars>>
    /\ UNCHANGED <<setVars, missVars, storeVars, codecVars, oauthVars, clients>>

\* interval_store: self.tweets.write()
MapWrite(t) ==
    /\ pc[t] = "map_write"
    /\ mapWriter = NoThread /\ mapReaders = {}
    /\ mapWriter' = t
    /\ pc' = [pc EXCEPT ![t] = "map_insert"]
    /\ UNCHANGED <<user_map, stores, mapReaders, storeReaders, storeWriter,
                   req, after, pending, fetched, ret, ghostVars>>
    /\ UNCHANGED <<setVars, missVars, storeVars, codecVars, oauthVars, clients>>

\* interval_store that inserts a new store whether or not the key is there.
MapInsert_replacing(t) ==
    /\ pc[t] = "map_insert"
    /\ user_map' = user_map \cup {req[t].user}
    /\ stores' = [stores EXCEPT ![req[t].user] = EmptyStore]
    /\ mapWriter' = NoThread
    /\ pc' = [pc EXCEPT ![t] = ReturnTo(t)]
    /\ UNCHANGED <<mapReaders, storeReaders, storeWriter,
                   req, after, pending, fetched, ret, ghostVars>>
    /\ UNCHANGED <<setVars, missVars, storeVars, codecVars, oauthVars, clients>>

\* interval_store whose write guard on the user map is never dropped.
MapInsert_holding(t) ==
    /\ pc[t] = "map_insert"
    /\ user_map' = user_map \cup {req[t].user}
    /\ stores' = IF req[t].user \in user_map THEN stores
                 ELSE [stores EXCEPT ![req[t].user] = EmptyStore]
    /\ pc' = [pc EXCEPT ![t] = ReturnTo(t)]
    /\ UNCHANGED <<mapReaders, mapWriter, storeReaders, storeWriter,
                   req, after, pending, fetched, ret, ghostVars>>
    /\ UNCHANGED <<setVars, missVars, storeVars, codecVars, oauthVars, clients>>

\* interval_store: insert a new store unless the key is there, then release.
MapInsert(t) ==
    /\ pc[t] = "map_insert"
    /\ user_map' = user_map \cup {req[t].user}
    /\ stores' = IF req[t].user \in user_map THEN stores
                 ELSE [stores EXCEPT ![req[t].user] = EmptyStore]
    /\ mapWriter' = NoThread
    /\ pc' = [pc EXCEPT ![t] = ReturnTo(t)]
    /\ UNCHANGED <<mapReaders, storeReaders, storeWriter,
                   req, after, pending, fetched, ret, ghostVars>>
    /\ UNCHANGED <<setVars, missVars, storeVars, codecVars, oauthVars, clients>>

\* A read lock that is granted while a writer holds the lock.
StoreRead_unguarded(t) ==
    /\ pc[t] = "store_read"
    /\ storeReaders' = [storeReaders EXCEPT ![req[t].user] = @ \cup {t}]
    /\ pc' = [pc EXCEPT ![t] = "known_get"]
    /\ UNCHANGED <<user_map, stores, mapReaders, mapWriter, storeWriter,
                   req, after, pending, fetched, ret, ghostVars>>
    /\ UNCHANGED <<setVars, missVars, storeVars, codecVars, oauthVars, clients>>

\* get_known_tweets: interval_store_lock.read()
StoreRead(t) ==
    /\ pc[t] = "store_read"
    /\ storeWriter[req[t].user] = NoThread
    /\ storeReaders' = [storeReaders EXCEPT ![req[t].user] = @ \cup {t}]
    /\ pc' = [pc EXCEPT ![t] = "known_get"]
    /\ UNCHANGED <<user_map, stores, mapReaders, mapWriter, storeWriter,
                   req, after, pending, fetched, ret, ghostVars>>
    /\ UNCHANGED <<setVars, missVars, storeVars, codecVars, oauthVars, clients>>

\* get_known_tweets that answers Ok only for an interval that is itself a
\* member of the known coverage.
get_known_tweets_refetching(store, interval) ==
    LET got == IntervalStore_get(store.intervals, store.values, interval)
    IN  IF got.some /\ interval \in store.intervals
        THEN [ok |-> TRUE, tweets |-> got.list, missing |-> {}]
        ELSE [ok |-> FALSE, tweets |-> <<>>,
              missing |-> IntervalStore_missing(store.intervals, interval)]

\* What get_known_tweets yields on a store: Ok(tweets) or Err(missing).
get_known_tweets(store, interval) ==
    LET got == IntervalStore_get(store.intervals, store.values, interval)
    IN  IF got.some
        THEN [ok |-> TRUE, tweets |-> got.list, missing |-> {}]
        ELSE [ok |-> FALSE, tweets |-> <<>>,
              missing |-> IntervalStore_missing(store.intervals, interval)]

\* get_known_tweets whose read guard outlives the call.
KnownGet_holding(t) ==
    /\ pc[t] = "known_get"
    /\ UNCHANGED storeReaders
    /\ \E known \in {get_known_tweets(stores[req[t].user], req[t].interval)} :
        IF known.ok
        THEN /\ ret' = [ret EXCEPT ![t] = Returned(known.tweets)]
             /\ pc' = [pc EXCEPT ![t] = "idle"]
             /\ req' = [req EXCEPT ![t] = NoRequest]
             /\ after' = [after EXCEPT ![t] = "none"]
             /\ UNCHANGED <<pending, depth>>
        ELSE /\ pending' = [pending EXCEPT ![t] = iter(known.missing)]
             /\ pc' = [pc EXCEPT ![t] = IF known.missing = {}
                                        THEN "map_read" ELSE "timeline"]
             /\ depth' = [depth EXCEPT ![t] = IF known.missing = {}
                                              THEN Deeper(@) ELSE @]
             /\ UNCHANGED <<ret, req, after>>
    /\ UNCHANGED <<user_map, stores, mapReaders, mapWriter, storeWriter,
                   fetched, wrote, ever, committed>>
    /\ UNCHANGED <<setVars, missVars, storeVars, codecVars, oauthVars, clients>>

\* get_known_tweets under the read lock, and the match in tweets: return
\* the tweets, or start fetch_all_tweets on the missing intervals (with
\* none missing it returns Ok at once and tweets calls itself again).
KnownGet(t) ==
    /\ pc[t] = "known_get"
    /\ storeReaders' = [storeReaders EXCEPT ![req[t].user] = @ \ {t}]
    /\ \E known \in {get_known_tweets(stores[req[t].user], req[t].interval)} :
        IF known.ok
        THEN /\ ret' = [ret EXCEPT ![t] = Returned(known.tweets)]
             /\ pc' = [pc EXCEPT ![t] = "idle"]
             /\ req' = [req EXCEPT ![t] = NoRequest]
             /\ after' = [after EXCEPT ![t] = "none"]
             /\ UNCHANGED <<pending, depth>>
        ELSE /\ pending' = [pending EXCEPT ![t] = iter(known.missing)]
             /\ pc' = [pc EXCEPT ![t] = IF known.missing = {}
                                        THEN "map_read" ELSE "timeline"]
             /\ depth' = [depth EXCEPT ![t] = IF known.missing = {}
                                              THEN Deeper(@) ELSE @]
             /\ UNCHANGED <<ret, req, after>>
    /\ UNCHANGED <<user_map, stores, mapReaders, mapWriter, storeWriter,
                   fetched, wrote, ever, committed>>
    /\ UNCHANGED <<setVars, missVars, storeVars, codecVars, oauthVars, clients>>

\* A failed fetch that is tried again from the user timeline.
Abort_retrying(t) ==
    /\ pc' = [pc EXCEPT ![t] = "timeline"]
    /\ UNCHANGED <<ret, req, after, pending, fetched>>

\* The request ends in the panic of expect("Fetching tweets").
Abort(t) ==
    /\ ret' = [ret EXCEPT ![t] = Panicked]
    /\ pc' = [pc EXCEPT ![t] = "idle"]
    /\ req' = [req EXCEPT ![t] = NoRequest]
    /\ after' = [after EXCEPT ![t] = "none"]
    /\ pending' = [pending EXCEPT ![t] = <<>>]
    /\ fetched' = [fetched EXCEPT ![t] = {}]

\* fetch_tweets: fetch_usertimeline for the next missing interval.  The
\* request or the decoding may fail; an empty list is None, which sends a
\* search-enabled principal to the search API and fails the others.
Timeline(t) ==
    /\ pc[t] = "timeline"
    /\ \E fails \in BOOLEAN :
        \E tweets \in {UpstreamRange(req[t].user, Head(pending[t]))} :
        IF fails \/ (tweets = {} /\ ~req[t].search)
        THEN Abort(t)
        ELSE IF tweets = {}
        THEN /\ pc' = [pc EXCEPT ![t] = "search"]
             /\ UNCHANGED <<req, after, pending, fetched, ret>>
        ELSE /\ fetched' = [fetched EXCEPT ![t] = tweets]
             /\ after' = [after EXCEPT ![t] = "deposit"]
             /\ pc' = [pc EXCEPT ![t] = "map_read"]
             /\ UNCHANGED <<req, pending, ret>>
    /\ UNCHANGED <<user_map, stores, lockVars, ghostVars>>
    /\ UNCHANGED <<setVars, missVars, storeVars, codecVars, oauthVars, clients>>

\* fetch_tweets: fetch_user_tweets_from_search; an empty list is a result.
Search(t) ==
    /\ pc[t] = "search"
    /\ \E fails \in BOOLEAN :
        IF fails
        THEN Abort(t)
        ELSE /\ fetched' = [fetched EXCEPT ![t] =
                               UpstreamRange(req[t].user, Head(pending[t]))]
             /\ after' = [after EXCEPT ![t] = "deposit"]
             /\ pc' = [pc EXCEPT ![t] = "map_read"]
             /\ UNCHANGED <<req, pending, ret>>
    /\ UNCHANGED <<user_map, stores, lockVars, ghostVars>>
    /\ UNCHANGED <<setVars, missVars, storeVars, codecVars, oauthVars, clients>>

\* fetch_tweets: interval_store_lock.write()
StoreWrite(t) ==
    /\ pc[t] = "store_write"
    /\ storeWriter[req[t].user] = NoThread
    /\ storeReaders[req[t].user] = {}
    /\ storeWriter' = [storeWriter EXCEPT ![req[t].user] = t]
    /\ pc' = [pc EXCEPT ![t] = "deposit"]
    /\ UNCHANGED <<user_map, stores, mapReaders, mapWriter, storeReaders,
                   req, after, pending, fetched, ret, ghostVars>>
    /\ UNCHANGED <<setVars, missVars, storeVars, codecVars, oauthVars, clients>>

\* fetch_tweets: interval_store.insert(interval, tweets) under the write
\* lock, up to self.intervals.insert: the values are compared on the
\* overlaps and the interval joins the known coverage.  Err releases the
\* lock and ends the request.
Deposit(t) ==
    /\ pc[t] = "deposit"
    /\ \E r \in {IntervalStore_insert(stores[req[t].user].intervals,
                                      stores[req[t].user].values,
                                      Head(pending[t]), fetched[t])} :
        IF r.ok
        THEN /\ stores' = [stores EXCEPT ![req[t].user].intervals = r.intervals]
             /\ pc' = [pc EXCEPT ![t] = "append"]
             /\ UNCHANGED <<storeWriter, req, after, pending, fetched, ret>>
        ELSE /\ Abort(t)
             /\ storeWriter' = [storeWriter EXCEPT ![req[t].user] = NoThread]
             /\ UNCHANGED stores
    /\ UNCHANGED <<user_map, mapReaders, mapWriter, storeReaders, ghostVars>>
    /\ UNCHANGED <<setVars, missVars, storeVars, codecVars, oauthVars, clients>>

\* An append that keeps only the newly fetched tweets as the stored values.
AppendValues_overwriting(t) ==
    /\ pc[t] = "append"
    /\ stores' = [stores EXCEPT ![req[t].user].values = fetched[t]]
    /\ storeWriter' = [storeWriter EXCEPT ![req[t].user] = NoThread]
    /\ pending' = [pending EXCEPT ![t] = Tail(pending[t])]
    /\ fetched' = [fetched EXCEPT ![t] = {}]
    /\ after' = [after EXCEPT ![t] = "known"]
    /\ pc' = [pc EXCEPT ![t] = IF Tail(pending[t]) = <<>>
                               THEN "map_read" ELSE "timeline"]
    /\ depth' = [depth EXCEPT ![t] = IF Tail(pending[t]) = <<>>
                                     THEN Deeper(@) ELSE @]
    /\ wrote' = [wrote EXCEPT ![t] =
                    @ \/ stores'[req[t].user] # committed[req[t].user]]
    /\ ever' = [ever EXCEPT ![req[t].user] = @ \cup fetched[t]]
    /\ committed' = [committed EXCEPT ![req[t].user] = stores'[req[t].user]]
    /\ UNCHANGED <<req, ret>>
    /\ UNCHANGED <<user_map, mapReaders, mapWriter, storeReaders>>
    /\ UNCHANGED <<setVars, missVars, storeVars, codecVars, oauthVars, clients>>

\* IntervalStore::insert from self.values.append to Ok, and the return of
\* fetch_tweets, which releases the write lock: fetch_all_tweets goes on
\* with the next missing interval, or, after the last, tweets calls itself.
AppendValues(t) ==
    /\ pc[t] = "append"
    /\ stores' = [stores EXCEPT ![req[t].user].values = @ \cup fetched[t]]
    /\ storeWriter' = [storeWriter EXCEPT ![req[t].user] = NoThread]
    /\ pending' = [pending EXCEPT ![t] = Tail(pending[t])]
    /\ fetched' = [fetched EXCEPT ![t] = {}]
    /\ after' = [after EXCEPT ![t] = "known"]
    /\ pc' = [pc EXCEPT ![t] = IF Tail(pending[t]) = <<>>
                               THEN "map_read" ELSE "timeline"]
    /\ depth' = [depth EXCEPT ![t] = IF Tail(pending[t]) = <<>>
                                     THEN Deeper(@) ELSE @]
    /\ wrote' = [wrote EXCEPT ![t] =
                    @ \/ stores'[req[t].user] # committed[req[t].user]]
    /\ ever' = [ever EXCEPT ![req[t].user] = @ \cup fetched[t]]
    /\ committed' = [committed EXCEPT ![req[t].user] = stores'[req[t].user]]
    /\ UNCHANGED <<req, ret>>
    /\ UNCHANGED <<user_map, mapReaders, mapWriter, storeReaders>>
    /\ UNCHANGED <<setVars, missVars, storeVars, codecVars, oauthVars, clients>>

Next ==
    \E t \in Threads :
        \/ Start(t)
        \/ MapRead(t) \/ MapLookup(t) \/ MapWrite(t) \/ MapInsert(t)
        \/ StoreRead(t) \/ KnownGet(t)
        \/ Timeline(t) \/ Search(t)
        \/ StoreWrite(t) \/ Deposit(t) \/ AppendValues(t)

Spec == Init /\ [][Next]_vars

\* The lookups of two users, each for an interval with and without items.
UserRequests == Users \X {<<2, 3>>, <<4, 5>>}

InitUsers ==
    /\ tsNew /\ clients = UserRequests
    /\ setInit /\ missInit /\ storeInit /\ codecInit /\ oauthInit

\* Specification SpecUsers: request threads serving lookups of two users.
SpecUsers == InitUsers /\ [][Next]_vars

----------------------------------------------------------------------------
(* Specification SpecCodec: the conversions between SecondsSinceUnixEpoch
   and Snowflake, on unsigned words of WordBits bits.  The u64 of the
   source does not fit the integers of the model checker, so the word and
   the numbers of the codec are scaled down together: the epoch is not a
   multiple of the milliseconds per second and is smaller than the
   timestamp field, as in the source. *)

\* Width of the unsigned integers (u64 in the source).
WordBits == 12

\* The shift that makes room for the low bits of a Snowflake (22).
TimestampShift == 3

\* Milliseconds per second (1000).
MillisPerSecond == 10

\* The Twitter epoch in milliseconds (1288834974657).
TWEPOCH_MILLIS == 37

RECURSIVE Pow2(_)
Pow2(n) == IF n = 0 THEN 1 ELSE 2 * Pow2(n - 1)

Word == Pow2(WordBits)

Words == 0..(Word - 1)

\* From<SecondsSinceUnixEpoch> for Snowflake:
\* (epoch.0 * 1000 - TWEPOCH_MILLIS) << 22.  value is the wrapped result;
\* overflow tells that the product or the difference left the word (the
\* shift drops high bits without notice).
seconds_to_snowflake(epoch) ==
    LET product == epoch * MillisPerSecond
        difference == (product % Word) - TWEPOCH_MILLIS
    IN  [value |-> (((difference + Word) % Word) * Pow2(TimestampShift)) % Word,
         overflow |-> product >= Word \/ difference < 0]

\* A conversion that divides before it adds the epoch.
snowflake_to_seconds_dividing_first(epoch) ==
    LET sum == ((epoch \div Pow2(TimestampShift)) \div MillisPerSecond)
                   + (TWEPOCH_MILLIS \div MillisPerSecond)
    IN  [value |-> sum % Word, overflow |-> sum >= Word]

\* From<Snowflake> for SecondsSinceUnixEpoch:
\* ((epoch.0 >> 22) + TWEPOCH_MILLIS) / 1000.
snowflake_to_seconds(epoch) ==
    LET sum == (epoch \div Pow2(TimestampShift)) + TWEPOCH_MILLIS
    IN  [value |-> (sum % Word) \div MillisPerSecond, overflow |-> sum >= Word]

\* A conversion is asked for: of any seconds value to a Snowflake (and
\* back), or of any Snowflake to seconds.
InitCodec ==
    /\ \E x \in Words :
           \/ codec = [NoConversion EXCEPT !.pc = "secs", !.from = "secs",
                                           !.secs = x]
           \/ codec = [NoConversion EXCEPT !.pc = "id", !.from = "id",
                                           !.id = x]
    /\ setInit /\ missInit /\ storeInit /\ tsInit /\ oauthInit

\* Snowflake::from(seconds).  An overflowing operation panics in a build
\* with overflow checks and wraps in a build without.
ToSnowflake ==
    /\ codec.pc = "secs"
    /\ \E checks \in BOOLEAN : \E r \in {seconds_to_snowflake(codec.secs)} :
           codec' = IF r.overflow /\ checks
                    THEN [codec EXCEPT !.pc = "panic", !.overflow = TRUE]
                    ELSE [codec EXCEPT !.pc = "id", !.id = r.value,
                                       !.overflow = r.overflow]
    /\ UNCHANGED <<setVars, missVars, storeVars, tsVars, oauthVars>>

\* SecondsSinceUnixEpoch::from(snowflake).
ToSeconds ==
    /\ codec.pc = "id"
    /\ \E checks \in BOOLEAN : \E r \in {snowflake_to_seconds(codec.id)} :
           codec' = IF r.overflow /\ checks
                    THEN [codec EXCEPT !.pc = "panic", !.overflow = TRUE]
                    ELSE [codec EXCEPT !.pc = "done", !.back = r.value,
                                       !.overflow = @ \/ r.overflow]
    /\ UNCHANGED <<setVars, missVars, storeVars, tsVars, oauthVars>>

NextCodec == ToSnowflake \/ ToSeconds

SpecCodec == InitCodec /\ [][NextCodec]_vars

----------------------------------------------------------------------------
(* Properties of the codec *)

\* The seconds values of the representable range: s*1000 >= EPOCH_MILLIS
\* and s*1000 - EPOCH_MILLIS fits the bits left of the shift.
Representable(secs) ==
    /\ secs * MillisPerSecond >= TWEPOCH_MILLIS
    /\ secs * MillisPerSecond - TWEPOCH_MILLIS < Pow2(WordBits - TimestampShift)

\* C24: for every seconds value s of the representable range, converting
\* s to a Snowflake and back yields s.
C24_CodecRoundTrip ==
    (codec.from = "secs" /\ Representable(codec.secs)) =>
        /\ codec.pc # "panic"
        /\ codec.pc = "done" => codec.back = codec.secs

\* C24 witness: a seconds value whose Snowflake uses the top bit of the
\* word has been converted there and back.
C24_Witness ==
    /\ codec.pc = "done" /\ codec.from = "secs"
    /\ Representable(codec.secs)
    /\ codec.id >= Pow2(WordBits - 1)
    /\ codec.back = codec.secs

\* C25: both conversions are total on the unsigned words: for every input
\* they return a value, and no operation underflows or overflows.
C25_CodecTotal ==
    codec.pc # "panic" /\ ~codec.overflow

----------------------------------------------------------------------------
(* Properties of TweetStore *)

\* C1: with a fixed upstream item set U per user and upstream calls that
\* return exactly the items of U in the requested range, whenever
\* get_known_tweets(user, I) is Ok(items) for lo <= hi, items is the
\* ascending list of exactly the items of U with id in I.
C1_KnownIsUpstream ==
    \A user \in Users : \A I \in IdIntervals :
        LET known == get_known_tweets(stores[user], I) IN
        (storeWriter[user] = NoThread /\ known.ok) =>
            /\ {known.tweets[i] : i \in 1..Len(known.tweets)}
                   = UpstreamRange(user, I)
            /\ \A i \in 1..Len(known.tweets) : \A j \in 1..Len(known.tweets) :
                   i < j => known.tweets[i] < known.tweets[j]

\* C14: when the fetches of a round have all succeeded and been deposited,
\* the call of tweets on itself finds get_known_tweets(user, I) Ok, for
\* every requested I with lo <= hi, so the lookup ends after one round.
C14_RequeryIsOk ==
    \A t \in Threads :
        (pc[t] = "known_get" /\ depth[t] >= 1) =>
            get_known_tweets(stores[req[t].user], req[t].interval).ok

\* C15: every range requested from upstream while serving a lookup of I
\* is a well-formed sub-range of I: I.lo <= since_id <= max_id <= I.hi.
C15_WellFormedSubRange ==
    \A t \in Threads :
        pc[t] \in {"timeline", "search"} =>
            /\ req[t].interval[1] <= Head(pending[t])[1]
            /\ Head(pending[t])[1] <= Head(pending[t])[2]
            /\ Head(pending[t])[2] <= req[t].interval[2]

\* C16: across a sequence of lookups (no other lookup in flight, none
\* having deposited since), no range requested from upstream contains an
\* id lying inside the user's known coverage at the time of the request,
\* endpoints of known intervals included.
C16_NoKnownPointRequested ==
    \A t \in Threads :
        (/\ pc[t] \in {"timeline", "search"}
         /\ \A o \in Threads \ {t} : pc[o] = "idle" /\ ~wrote[o]) =>
            \A id \in Ids :
                contains(Head(pending[t]), id) =>
                    ~\E E \in stores[req[t].user].intervals : contains(E, id)

\* C17: a lookup whose interval lies within a single known interval of the
\* user's store returns the stored items of that interval from its first
\* get_known_tweets, without any upstream call and whatever upstream
\* would answer.
C17_KnownNeedsNoUpstream ==
    [][\A t \in Threads :
         (/\ pc[t] = "known_get" /\ pc'[t] # "known_get"
          /\ depth[t] = 0
          /\ \E E \in stores[req[t].user].intervals :
                 E[1] <= req[t].interval[1] /\ req[t].interval[2] <= E[2])
         => /\ pc'[t] = "idle"
            /\ ret'[t] = Returned(SortedValues(
                   {v \in stores[req[t].user].values :
                        contains(req[t].interval, v)}))
            /\ wrote'[t] = FALSE
            /\ stores' = stores]_vars

\* C17 witness: a lookup has returned items from its first
\* get_known_tweets, having made no fetch and no deposit.
C17_Witness ==
    \E t \in Threads :
        /\ pc[t] = "idle"
        /\ ret[t].kind = "ok" /\ ret[t].tweets # <<>>
        /\ depth[t] = 0 /\ ~wrote[t]

\* C18: when the lookup of a principal without search fails because the
\* user timeline is empty for a missing sub-range, the lookup has not
\* changed the user's store.
C18_EmptyFailureLeavesStore ==
    [][\A t \in Threads :
         (/\ pc[t] = "timeline"
          /\ ~req[t].search
          /\ UpstreamRange(req[t].user, Head(pending[t])) = {}
          /\ pc'[t] = "idle")
         => ~wrote[t]]_vars

\* C19: for a user whose store has never received a deposit,
\* get_known_tweets(user, I) is Err with the missing set {I}, for every
\* I with lo <= hi.
C19_NeverDepositedAllMissing ==
    \A user \in Users : \A I \in IdIntervals :
        stores[user].intervals = {} =>
            get_known_tweets(stores[user], I)
                = [ok |-> FALSE, tweets |-> <<>>, missing |-> {I}]

\* C20: under any interleaving, when get_known_tweets(user, I) is
\* Ok(list), list holds every item with time in I that a successful
\* deposit for that user has ever stored.
C20_NothingLost ==
    \A user \in Users : \A I \in IdIntervals :
        LET known == get_known_tweets(stores[user], I) IN
        known.ok =>
            {v \in ever[user] : contains(I, v)}
                \subseteq {known.tweets[i] : i \in 1..Len(known.tweets)}

\* C20 witness: after several deposits, one of them by a lookup that has
\* since returned, a reader finds the items of the whole range.
C20_Witness ==
    \E user \in Users :
        /\ ever[user] = Upstream(user)
        /\ get_known_tweets(stores[user], <<0, MaxId>>).ok
        /\ \E t \in Threads :
               /\ ret[t] = Returned(SortedValues(Upstream(user)))
               /\ wrote[t]
        /\ \E t \in Threads : pc[t] = "known_get"

\* C21: a reader holding a user's read lock never observes a store whose
\* known coverage has been extended by a deposit while that deposit's
\* values are not yet in the value collection, or the reverse: the store
\* it sees is the one the last completed insert left.
C21_DepositsObservedAtomically ==
    \A user \in Users :
        storeReaders[user] # {} => stores[user] = committed[user]

\* C21 witness: a reader holds the read lock of a store that holds
\* deposited items while a writer with fetched tweets waits for the lock.
C21_Witness ==
    \E user \in Users : \E w \in Threads :
        /\ storeReaders[user] # {}
        /\ stores[user].values # {}
        /\ pc[w] = "store_write" /\ req[w].user = user /\ fetched[w] # {}

\* The locks a thread holds: the user-map lock or a user's store lock, in
\* read or write mode.
HoldsMapLock(t) == t \in mapReaders \/ mapWriter = t

HoldsStoreLock(t, user) == t \in storeReaders[user] \/ storeWriter[user] = t

\* C22: no thread performs upstream I/O (the user timeline or the search
\* request) while holding the user-map lock or a per-user store lock.
C22_NoUpstreamUnderLock ==
    \A t \in Threads :
        pc[t] \in {"timeline", "search"} =>
            /\ ~HoldsMapLock(t)
            /\ \A user \in Users : ~HoldsStoreLock(t, user)

\* C22 witness: a thread is at its search request, after an empty user
\* timeline, while the other thread holds the write lock of that store.
C22_Witness ==
    \E t \in Threads : \E o \in Threads \ {t} :
        /\ pc[t] = "search"
        /\ storeWriter[req[t].user] = o

\* The steps of a lookup under way.
Progress(t) ==
    \/ MapRead(t) \/ MapLookup(t) \/ MapWrite(t) \/ MapInsert(t)
    \/ StoreRead(t) \/ KnownGet(t)
    \/ Timeline(t) \/ Search(t)
    \/ StoreWrite(t) \/ Deposit(t) \/ AppendValues(t)

HoldsALock(t) == HoldsMapLock(t) \/ \E user \in Users : HoldsStoreLock(t, user)

\* C23: a thread asks for the user-map lock only while it holds no store
\* lock, no thread holds two store locks at once, and no interleaving of
\* lookups for any users deadlocks: a lookup that cannot take its next
\* step waits for a lock whose holder can take a step.
C23_LockOrderNoDeadlock ==
    \A t \in Threads :
        /\ (pc[t] \in {"map_read", "map_write"} \/ HoldsMapLock(t)) =>
               \A user \in Users : ~HoldsStoreLock(t, user)
        /\ \A u1 \in Users : \A u2 \in Users :
               (HoldsStoreLock(t, u1) /\ HoldsStoreLock(t, u2)) => u1 = u2
        /\ pc[t] # "idle" =>
               \/ ENABLED Progress(t)
               \/ \E o \in Threads \ {t} : HoldsALock(o) /\ ENABLED Progress(o)

\* C23 witness: both users have a store; a thread cannot take the read
\* lock of a store because the other thread is inside an insert under its
\* write lock.
C23_Witness ==
    /\ user_map = Users
    /\ \E t \in Threads : \E o \in Threads \ {t} :
           /\ pc[t] = "store_read" /\ ~ENABLED Progress(t)
           /\ pc[o] = "append" /\ storeWriter[req[t].user] = o
           /\ stores[req[o].user] # committed[req[o].user]

\* C28: the known query leaves the cache unchanged: a user has an entry
\* in the user map only once a deposit for that user has been made or is
\* being made, never through a query that misses.
C28_QueryLeavesUserMap ==
    \A user \in user_map :
        \/ committed[user] # EmptyStore
        \/ \E t \in Threads : req[t].user = user /\ after[t] = "deposit"

\* C29: under any interleaving the user map only grows, and a store, once
\* created, is never replaced: it keeps its values and changes only
\* through an insert under its write lock, also when two threads have
\* both found the user absent.
C29_StoreNeverReplaced ==
    [][\A user \in user_map :
         /\ user \in user_map'
         /\ stores[user].values \subseteq stores'[user].values
         /\ stores'[user] # stores[user] =>
                \E t \in Threads :
                    /\ storeWriter[user] = t /\ req[t].user = user
                    /\ pc[t] \in {"deposit", "append"}]_vars

\* C29 witness: a thread that found the user absent is about to insert
\* into the user map after the other thread has created the store and
\* deposited into it.
C29_Witness ==
    \E t \in Threads :
        /\ pc[t] = "map_insert"
        /\ req[t].user \in user_map
        /\ stores[req[t].user].values # {}

\* C30: when the fetch of a missing sub-range fails (an upstream error, or
\* an empty user timeline without search), the lookup ends with an error:
\* the step deposits nothing, leaves nothing to fetch and no fetch is
\* tried again.  A fetch step otherwise hands its tweets to the deposit
\* or, after an empty user timeline, goes on to the search.
C30_FailedFetchEndsLookup ==
    [][\A t \in Threads :
         (pc[t] \in {"timeline", "search"} /\ pc'[t] # pc[t]) =>
            /\ (/\ pc[t] = "timeline" /\ ~req[t].search
                /\ UpstreamRange(req[t].user, Head(pending[t])) = {})
               => pc'[t] = "idle"
            /\ \/ /\ pc'[t] = "idle"
                  /\ ret'[t] = Panicked
                  /\ stores' = stores
                  /\ pending'[t] = <<>> /\ fetched'[t] = {}
               \/ /\ pc'[t] = "map_read" /\ after'[t] = "deposit"
                  /\ fetched'[t] = UpstreamRange(req[t].user, Head(pending[t]))
                  /\ pending'[t] = pending[t]
               \/ /\ pc[t] = "timeline" /\ pc'[t] = "search"
                  /\ req[t].search
                  /\ UpstreamRange(req[t].user, Head(pending[t])) = {}]_vars

\* C30 witness: a lookup has ended in an error at its first fetch and the
\* user's store, created by the query, is still empty.
C30_Witness ==
    \E t \in Threads : \E user \in user_map :
        /\ pc[t] = "idle" /\ ret[t] = Panicked
        /\ depth[t] = 0 /\ ~wrote[t]
        /\ stores[user] = EmptyStore
        /\ \A o \in Threads \ {t} : pc[o] = "idle" /\ ret[o] = NoResult

\* C32: with a stable upstream (a fixed item set per user, each fetch
\* returning exactly the items of the requested range), no deposit fails
\* with a conflict, under any interleaving of concurrent lookups of
\* overlapping ranges for one user by any principals.
C32_NoConflictOnStableUpstream ==
    [][\A t \in Threads :
         (pc[t] = "deposit" /\ pc'[t] # "deposit") => pc'[t] = "append"]_vars

\* ---------------------------------------------------------------------
\* OauthHandler: the table of request tokens awaiting their callback.
\* Each block that locks the table's Mutex is one step: the guard is taken
\* and dropped inside the block and nothing in it blocks.  A panic raised
\* while the guard is held poisons the Mutex, and lock().unwrap() panics
\* on a poisoned Mutex.
\* ---------------------------------------------------------------------

InitOauth == oauthInit /\ setInit /\ missInit /\ storeInit /\ tsInit /\ codecInit

\* OauthHandler::dance up to the lock: the request token is asked of
\* upstream; a failed request or an unreadable answer returns Err.
DanceRequest(c) ==
    /\ opc[c] = "idle"
    /\ \E fails \in BOOLEAN : \E tok \in Tokens :
           IF fails
           THEN /\ oret' = [oret EXCEPT ![c] = "Err"]
                /\ UNCHANGED <<opc, otoken>>
           ELSE /\ opc' = [opc EXCEPT ![c] = "dance_insert"]
                /\ otoken' = [otoken EXCEPT ![c] = tok]
                /\ oret' = [oret EXCEPT ![c] = "none"]
    /\ UNCHANGED <<tokens_awaiting_callbacks, poisoned>>
    /\ UNCHANGED <<setVars, missVars, storeVars, tsVars, codecVars>>

\* OauthHandler::dance, the locked block: the token is put into the table.
DanceInsert(c) ==
    /\ opc[c] = "dance_insert"
    /\ IF poisoned
       THEN /\ oret' = [oret EXCEPT ![c] = "panic"]
            /\ UNCHANGED tokens_awaiting_callbacks
       ELSE /\ tokens_awaiting_callbacks' =
                   tokens_awaiting_callbacks \cup {otoken[c]}
            /\ oret' = [oret EXCEPT ![c] = "Ok"]
    /\ opc' = [opc EXCEPT ![c] = "idle"]
    /\ otoken' = [otoken EXCEPT ![c] = "none"]
    /\ UNCHANGED poisoned
    /\ UNCHANGED <<setVars, missVars, storeVars, tsVars, codecVars>>

\* OauthHandler::exchange is called with the token of a callback request.
ExchangeCall(c) ==
    /\ opc[c] = "idle"
    /\ \E tok \in Tokens :
           otoken' = [otoken EXCEPT ![c] = tok]
    /\ opc' = [opc EXCEPT ![c] = "exchange_get"]
    /\ oret' = [oret EXCEPT ![c] = "none"]
    /\ UNCHANGED <<tokens_awaiting_callbacks, poisoned>>
    /\ UNCHANGED <<setVars, missVars, storeVars, tsVars, codecVars>>

\* OauthHandler::exchange, the first locked block: the token's secret is
\* read; get(..).expect(..) panics, the guard held, when the token is not
\* in the table.
ExchangeGet(c) ==
    /\ opc[c] = "exchange_get"
    /\ IF poisoned
       THEN /\ opc' = [opc EXCEPT ![c] = "idle"]
            /\ otoken' = [otoken EXCEPT ![c] = "none"]
            /\ oret' = [oret EXCEPT ![c] = "panic"]
            /\ UNCHANGED poisoned
       ELSE IF otoken[c] \notin tokens_awaiting_callbacks
       THEN /\ opc' = [opc EXCEPT ![c] = "idle"]
            /\ otoken' = [otoken EXCEPT ![c] = "none"]
            /\ oret' = [oret EXCEPT ![c] = "panic"]
            /\ poisoned' = TRUE
       ELSE /\ opc' = [opc EXCEPT ![c] = "exchange_send"]
            /\ UNCHANGED <<otoken, oret, poisoned>>
    /\ UNCHANGED tokens_awaiting_callbacks
    /\ UNCHANGED <<setVars, missVars, storeVars, tsVars, codecVars>>

\* OauthHandler::exchange: the access token is asked of upstream, no lock
\* held; a failed request returns Err and leaves the token in the table.
ExchangeSend(c) ==
    /\ opc[c] = "exchange_send"
    /\ \E fails \in BOOLEAN :
           IF fails
           THEN /\ opc' = [opc EXCEPT ![c] = "idle"]
                /\ otoken' = [otoken EXCEPT ![c] = "none"]
                /\ oret' = [oret EXCEPT ![c] = "Err"]
           ELSE /\ opc' = [opc EXCEPT ![c] = "exchange_remove"]
                /\ UNCHANGED <<otoken, oret>>
    /\ UNCHANGED <<tokens_awaiting_callbacks, poisoned>>
    /\ UNCHANGED <<setVars, missVars, storeVars, tsVars, codecVars>>

\* OauthHandler::exchange, the second locked block: the token is taken out
\* of the table; remove(..).expect(..) panics, the guard held, when another
\* exchange has consumed it since the first block.
ExchangeRemove(c) ==
    /\ opc[c] = "exchange_remove"
    /\ IF poisoned
       THEN /\ opc' = [opc EXCEPT ![c] = "idle"]
            /\ otoken' = [otoken EXCEPT ![c] = "none"]
            /\ oret' = [oret EXCEPT ![c] = "panic"]
            /\ UNCHANGED <<tokens_awaiting_callbacks, poisoned>>
       ELSE IF otoken[c] \notin tokens_awaiting_callbacks
       THEN /\ opc' = [opc EXCEPT ![c] = "idle"]
            /\ otoken' = [otoken EXCEPT ![c] = "none"]
            /\ oret' = [oret EXCEPT ![c] = "panic"]
            /\ poisoned' = TRUE
            /\ UNCHANGED tokens_awaiting_callbacks
       ELSE /\ tokens_awaiting_callbacks' =
                   tokens_awaiting_callbacks \ {otoken[c]}
            /\ opc' = [opc EXCEPT ![c] = "exchange_verify"]
            /\ UNCHANGED <<otoken, oret, poisoned>>
    /\ UNCHANGED <<setVars, missVars, storeVars, tsVars, codecVars>>

\* OauthHandler::exchange, the rest: the answer is read and the user
\* verified; each of the three can return Err.
ExchangeVerify(c) ==
    /\ opc[c] = "exchange_verify"
    /\ \E fails \in BOOLEAN :
           oret' = [oret EXCEPT ![c] = IF fails THEN "Err" ELSE "Ok"]
    /\ opc' = [opc EXCEPT ![c] = "idle"]
    /\ otoken' = [otoken EXCEPT ![c] = "none"]
    /\ UNCHANGED <<tokens_awaiting_callbacks, poisoned>>
    /\ UNCHANGED <<setVars, missVars, storeVars, tsVars, codecVars>>

NextOauth ==
    \E c \in OauthCallers :
        \/ DanceRequest(c)
        \/ DanceInsert(c)
        \/ ExchangeCall(c)
        \/ ExchangeGet(c)
        \/ ExchangeSend(c)
        \/ ExchangeRemove(c)
        \/ ExchangeVerify(c)

\* Specification SpecOauth: callers of dance and exchange sharing one
\* OauthHandler.
SpecOauth == InitOauth /\ [][NextOauth]_vars

\* C33: an exchange for a token that is not in the pending table (unknown,
\* or consumed by an earlier or concurrent exchange) leaves the table
\* usable: every dance, and every exchange for a token that is in the
\* table, still acquires the table's mutex and proceeds instead of
\* panicking.
C33_UnknownExchangeLeavesTableUsable ==
    [][\A c \in OauthCallers :
         /\ (opc[c] = "dance_insert" /\ opc'[c] # opc[c])
                => oret'[c] # "panic"
         /\ (/\ opc[c] = "exchange_get" /\ opc'[c] # opc[c]
             /\ otoken[c] \in tokens_awaiting_callbacks)
                => oret'[c] # "panic"]_vars

====
